---- MODULE Spec2Model ----
(***************************************************************************)
(* Knowledge lifecycle and scheduled ingestion pipeline.                   *)
(*                                                                         *)
(*   AdaptiveLearningSystem  (src/adaptive_learning_system.py)             *)
(*   ScheduledDataLoader     (src/scheduled_data_loader.py)                *)
(*                                                                         *)
(* Texts are sequences of one-character strings.  Time is a counter that   *)
(* advances whenever an operation reads datetime.now().  Confidence and    *)
(* distance are integers in hundredths (One = 1.0).  File writes and index *)
(* calls may raise: every handler takes the fault it meets as an input.    *)
(***************************************************************************)
EXTENDS Integers, Sequences, FiniteSets, TLC

VARIABLES
    learned_qa_pairs,    \* AdaptiveLearningSystem.learned_qa_pairs (in memory)
    knowledge_file,      \* learned_knowledge.json on disk
    metadata_file,       \* learning_metadata.json on disk
    learned_collection,  \* ChromaDB collection "learned_qa": id -> entry
    now,                 \* the clock read by datetime.now()
    last,                \* the last call made: its inputs and what it returned
    served,              \* history: per question id, answers served since the last wipe
    learning_system,     \* ScheduledDataLoader.learning_system is set (FALSE: None)
    chat_interactions,   \* ScheduledDataLoader.chat_interactions (in memory)
    interaction_file,    \* chat_interactions.json on disk
    pc,                  \* per thread: where it is in a job body
    unprocessed,         \* per thread: the local list of process_chat_interactions,
                         \*   as indices into chat_interactions, and how far the loop is
    runs,                \* history: runs of process_chat_interactions started so far
    run_start,           \* history: per thread, the records unprocessed when its run began
    run_submitted,       \* history: per thread, the records its run has passed to ingest
    contributed,         \* history: per record, the QAPairs ingest appended for it
    excel_folder,        \* the spreadsheet inbox: the files in it
    backup_folder,       \* the backup area: archived files, snapshots, exports
    he_collection,       \* the ChromaDB collection the spreadsheet rows go to
    chroma_exists,       \* the index storage tree at chroma_path exists
    excel_files,         \* per thread: the local list of daily_data_load_job still to load
    caller,              \* per thread: the job that called process_chat_interactions
    drops,               \* history: files put into the inbox so far
    daily_log,           \* history: per thread, what its daily run did with each file
    run_info,            \* history: per thread, what each daily run found and how its
                         \*   snapshot went
    fg_pairs,            \* learned_qa_pairs of a second AdaptiveLearningSystem (foreground)
    due,                 \* the jobs of the schedule that are due
    active,              \* per thread: the job body executing on it, and who started it
    driver_alive,        \* the scheduler thread is still in its loop
    outcomes             \* history: the job bodies that ended, and how

store_vars == <<learned_qa_pairs, knowledge_file, metadata_file, learned_collection>>
chat_vars == <<learning_system, chat_interactions, interaction_file, unprocessed,
               runs, run_start, run_submitted, contributed>>
learn_vars == <<chat_vars, pc>>
daily_vars == <<excel_folder, backup_folder, he_collection, chroma_exists, excel_files,
                caller, drops, daily_log, run_info>>
sched_vars == <<due, active, driver_alive, outcomes>>
aux_vars == <<fg_pairs, sched_vars>>
vars == <<learned_qa_pairs, knowledge_file, metadata_file, learned_collection,
          now, last, served, learning_system, chat_interactions, interaction_file,
          pc, unprocessed, runs, run_start, run_submitted, contributed,
          excel_folder, backup_folder, he_collection, chroma_exists, excel_files,
          caller, drops, daily_log, run_info, fg_pairs, due, active, driver_alive,
          outcomes>>

-----------------------------------------------------------------------------
(* Bounds of the model *)

MaxPairs == 3
MaxTime == 3
MaxInteractions == 3
MaxRuns == 3
MaxDrops == 3
MaxDailyRuns == 2
MaxJobRuns == 3
Today == 60

-----------------------------------------------------------------------------
(* Texts *)

Whitespace == {" "}

RECURSIVE lstrip(_)
lstrip(s) == IF s # <<>> /\ Head(s) \in Whitespace THEN lstrip(Tail(s)) ELSE s

RECURSIVE rstrip(_)
rstrip(s) ==
    IF s # <<>> /\ s[Len(s)] \in Whitespace
    THEN rstrip(SubSeq(s, 1, Len(s) - 1))
    ELSE s

strip(s) == rstrip(lstrip(s))

\* hashlib.md5(text.encode()).hexdigest(): a digest that identifies the text
md5(s) == [md5_of |-> s]

Q1 == <<"w", "h", "a", "t", "?">>
Q2 == <<"w", "h", "y", " ", "s", "o">>
QShort == <<"w", "h", "o", "?">>
QPadded == <<" ", "h", "i", " ", " ">>
A1 == <<"a", " ", "f", "a", "i", "l", "o", "v", "e", "r">>
A2 == <<"d", "i", "s", "k", " ", "f", "u", "l", "l", ".", ".">>
AShort == <<"n", "o", " ", "i", "d", "e", "a", ".", ".">>
APadded == <<" ", "r", "e", "b", "o", "o", "t", "e", "d", " ">>

\* A field of a candidate record: a string, absent, or a non-string value
Str(t) == [kind |-> "str", text |-> t]
Missing == [kind |-> "missing", text |-> <<>>]
NonStr == [kind |-> "nonstr", text |-> <<>>]

Candidate(q, a, src) == [is_dict |-> TRUE, question |-> q, answer |-> a, source |-> src]
NotADict == [is_dict |-> FALSE, question |-> Missing, answer |-> Missing, source |-> ""]

\* Candidate records offered to ingest: valid ones, and one of each way to be refused
ListCandidates ==
    { Candidate(Str(Q1), Str(A1), ""),
      Candidate(Str(Q2), Str(A1), ""),
      Candidate(Str(Q2), Str(AShort), ""),
      Candidate(Str(QPadded), Str(A1), "") }

SingleCandidates ==
    { Candidate(Str(Q1), Str(A2), ""),
      Candidate(Str(QShort), Str(A1), ""),
      Candidate(Str(Q2), Str(APadded), ""),
      Candidate(Str(<<>>), Str(A1), ""),
      Candidate(NonStr, Str(A1), ""),
      Candidate(Str(Q1), Missing, "") }

Items1 == {<<>>} \cup {<<c>> : c \in ListCandidates \cup {NotADict}}
Items == Items1 \cup {<<c, d>> : c \in ListCandidates, d \in ListCandidates}

\* json_data as ingest_qa_json receives it
Payloads ==
    [shape : {"list"}, items : Items]
    \cup [shape : {"envelope"}, items : Items1]
    \cup [shape : {"single"}, items : {<<c>> : c \in SingleCandidates}]
    \cup [shape : {"scalar", "bad_json"}, items : {<<>>}]

\* The payloads that fill the store for the retrieval operations
SimplePayloads ==
    [shape : {"single"},
     items : {<<Candidate(Str(Q1), Str(A1), "")>>, <<Candidate(Str(Q2), Str(A1), "")>>}]

-----------------------------------------------------------------------------
(* AdaptiveLearningSystem: validation and enrichment *)

MinQuestionLen == 5
MinAnswerLen == 10
One == 100

required_fields(pair) == <<pair.question, pair.answer>>

validate_qa_pair(pair) ==
    /\ pair.is_dict
    /\ \A i \in 1..2 :
          LET f == required_fields(pair)[i] IN
          ~(f.kind = "missing" \/ f.text = <<>> \/ f.kind # "str")
    /\ ~(Len(strip(pair.question.text)) < MinQuestionLen
           \/ Len(strip(pair.answer.text)) < MinAnswerLen)

\* term in text
contains(text, term) ==
    \E i \in 1..(Len(text) - Len(term) + 1) : SubSeq(text, i, i + Len(term) - 1) = term

\* _categorize_qa_pair: a category for each term list the lower-cased question
\* and answer hit, "general" if none; one term of two of the lists stands for all
CategoryTerms == { [category |-> "human_error", term |-> <<"h", "e", "a">>],
                   [category |-> "dell_specific", term |-> <<"d", "e", "l", "l">>] }

categorize_qa_pair(question, answer) ==
    LET combined == question \o <<" ">> \o answer
        hit == {c.category : c \in {x \in CategoryTerms : contains(combined, x.term)}}
    IN  IF hit = {} THEN {"general"} ELSE hit

Digits == {"0", "1", "2", "3", "4", "5", "6", "7", "8", "9"}

\* _extract_fiscal_years: "FY" and the four digits of every fy<digits> in the text
extract_fiscal_years(text) ==
    { <<"FY">> \o SubSeq(text, i + 2, i + 5) :
        i \in { j \in 1..(Len(text) - 5) :
                  /\ text[j] = "f" /\ text[j + 1] = "y"
                  /\ \A k \in 2..5 : text[j + k] \in Digits } }

enrich_qa_pair(pair, t) ==
    [ question |-> pair.question.text,
      answer |-> pair.answer.text,
      learned_timestamp |-> t,
      question_hash |-> md5(pair.question.text),
      answer_length |-> Len(pair.answer.text),
      question_length |-> Len(pair.question.text),
      categories |-> categorize_qa_pair(pair.question.text, pair.answer.text),
      usage_count |-> 0,
      confidence_score |-> One,
      source |-> IF pair.source = "" THEN "user_provided" ELSE pair.source,
      fiscal_years |-> extract_fiscal_years(pair.question.text \o <<" ">>
                                               \o pair.answer.text),
      last_used |-> <<>> ]

RECURSIVE valid_pairs_of(_, _)
valid_pairs_of(new_pairs, t) ==
    IF new_pairs = <<>> THEN <<>>
    ELSE IF validate_qa_pair(Head(new_pairs))
         THEN <<enrich_qa_pair(Head(new_pairs), t)>> \o valid_pairs_of(Tail(new_pairs), t)
         ELSE valid_pairs_of(Tail(new_pairs), t)

\* The format dispatch of ingest_qa_json: the candidate list, or a refusal
parse_payload(payload) ==
    CASE payload.shape = "bad_json" -> [ok |-> FALSE, new_pairs |-> <<>>]
      [] payload.shape = "scalar" -> [ok |-> FALSE, new_pairs |-> <<>>]
      [] payload.shape = "envelope" -> [ok |-> TRUE, new_pairs |-> payload.items]
      [] payload.shape = "single" ->
            IF payload.items[1].question.kind # "missing"
               /\ payload.items[1].answer.kind # "missing"
            THEN [ok |-> TRUE, new_pairs |-> payload.items]
            ELSE [ok |-> FALSE, new_pairs |-> <<>>]
      [] payload.shape = "list" -> [ok |-> TRUE, new_pairs |-> payload.items]

-----------------------------------------------------------------------------
(* AdaptiveLearningSystem: persistence *)

AbsentFile == [state |-> "absent", pairs |-> <<>>]
AbsentMeta == [state |-> "absent", total_pairs |-> 0, last_updated |-> 0]

\* Where a save can raise: opening or writing either file
SaveFaults == {"none", "open_knowledge", "dump_knowledge", "dump_metadata"}

\* _save_knowledge: both files rewritten whole; any exception is logged and dropped
save_knowledge(pairs, kf, mf, t, fault) ==
    CASE fault = "open_knowledge" -> [knowledge_file |-> kf, metadata_file |-> mf]
      [] fault = "dump_knowledge" ->
            [knowledge_file |-> [state |-> "partial", pairs |-> <<>>], metadata_file |-> mf]
      [] fault = "dump_metadata" ->
            [knowledge_file |-> [state |-> "ok", pairs |-> pairs],
             metadata_file |-> [state |-> "partial", total_pairs |-> 0, last_updated |-> 0]]
      [] fault = "none" ->
            [knowledge_file |-> [state |-> "ok", pairs |-> pairs],
             metadata_file |-> [state |-> "ok", total_pairs |-> Len(pairs),
                                last_updated |-> t]]

chroma_entry(pair) ==
    [ document |-> pair.question,
      answer |-> pair.answer,
      learned_timestamp |-> pair.learned_timestamp,
      source |-> pair.source,
      confidence_score |-> pair.confidence_score ]

\* collection.add(documents, metadatas, ids): refuses a call that repeats an id,
\* keeps the entry an id already has; entries[i] goes under ids[i]
collection_add(coll, ids, entries, fault) ==
    LET new == {ids[i] : i \in 1..Len(ids)}
        repeated == \E i, j \in 1..Len(ids) : i < j /\ ids[i] = ids[j]
        entry(h) == entries[CHOOSE i \in 1..Len(ids) : ids[i] = h]
    IN  IF fault \/ repeated \/ ids = <<>>
        THEN coll
        ELSE [h \in DOMAIN coll \cup new |-> IF h \in DOMAIN coll THEN coll[h] ELSE entry(h)]

\* _add_to_chroma: any exception of the add is logged and dropped
add_to_chroma(coll, qa_pairs, fault) ==
    collection_add(coll,
                   [i \in 1..Len(qa_pairs) |-> qa_pairs[i].question_hash],
                   [i \in 1..Len(qa_pairs) |-> chroma_entry(qa_pairs[i])],
                   fault)

\* ingest_qa_json on the store (pairs, kf, mf, coll) at time t
ingest_qa_json(payload, pairs, kf, mf, coll, t, save_fault, add_fault) ==
    LET parsed == parse_payload(payload)
        valid_pairs == valid_pairs_of(parsed.new_pairs, t)
        extended == pairs \o valid_pairs
        saved == save_knowledge(extended, kf, mf, t, save_fault)
    IN  IF parsed.ok /\ valid_pairs # <<>>
        THEN [ result |-> TRUE,
               learned_qa_pairs |-> extended,
               knowledge_file |-> saved.knowledge_file,
               metadata_file |-> saved.metadata_file,
               learned_collection |-> add_to_chroma(coll, valid_pairs, add_fault),
               n_valid |-> Len(valid_pairs) ]
        ELSE [ result |-> FALSE,
               learned_qa_pairs |-> pairs,
               knowledge_file |-> kf,
               metadata_file |-> mf,
               learned_collection |-> coll,
               n_valid |-> 0 ]

-----------------------------------------------------------------------------
(* AdaptiveLearningSystem: retrieval *)

DefaultSearchThreshold == 70
DefaultAnswerThreshold == 80

None == [none |-> TRUE]

Min(a, b) == IF a < b THEN a ELSE b
Max(a, b) == IF a > b THEN a ELSE b

\* Distances the index may report, and the thresholds and limits callers pass
Distances == {0, 20, 21, 30, 31, 130}
Thresholds == {0, DefaultSearchThreshold, DefaultAnswerThreshold}
Limits == {1, 2}

\* collection.query(n_results): up to n_results distinct entries, each with a distance
query_results(coll, n_results) ==
    LET k == Min(n_results, Cardinality(DOMAIN coll))
    IN  { r \in [1..k -> [id : DOMAIN coll, distance : Distances]] :
              \A i, j \in 1..k : i # j => r[i].id # r[j].id }

\* Convert distance to confidence (lower distance = higher confidence)
confidence_of(distance) == Max(0, One - distance)

meets_threshold_strict(confidence, confidence_threshold) == confidence > confidence_threshold

meets_threshold(confidence, confidence_threshold) == confidence >= confidence_threshold

relevant_pair(coll, hit) ==
    [ question |-> coll[hit.id].document,
      answer |-> coll[hit.id].answer,
      confidence |-> confidence_of(hit.distance),
      source |-> coll[hit.id].source,
      learned_timestamp |-> coll[hit.id].learned_timestamp ]

RECURSIVE filter_relevant(_, _, _)
filter_relevant(coll, hits, confidence_threshold) ==
    IF hits = <<>> THEN <<>>
    ELSE IF meets_threshold(confidence_of(Head(hits).distance), confidence_threshold)
         THEN <<relevant_pair(coll, Head(hits))>>
                  \o filter_relevant(coll, Tail(hits), confidence_threshold)
         ELSE filter_relevant(coll, Tail(hits), confidence_threshold)

\* list.sort(key=confidence, reverse=True): descending, equal keys keep their order
insert_desc_unstable(sorted, x) ==
    LET ahead == {i \in 1..Len(sorted) : sorted[i].confidence > x.confidence}
        k == IF ahead = {} THEN 0 ELSE CHOOSE i \in ahead : \A j \in ahead : j <= i
    IN  SubSeq(sorted, 1, k) \o <<x>> \o SubSeq(sorted, k + 1, Len(sorted))

insert_desc(sorted, x) ==
    LET ahead == {i \in 1..Len(sorted) : sorted[i].confidence >= x.confidence}
        k == IF ahead = {} THEN 0 ELSE CHOOSE i \in ahead : \A j \in ahead : j <= i
    IN  SubSeq(sorted, 1, k) \o <<x>> \o SubSeq(sorted, k + 1, Len(sorted))

RECURSIVE sort_from(_, _)
sort_from(sorted, rest) ==
    IF rest = <<>> THEN sorted ELSE sort_from(insert_desc(sorted, Head(rest)), Tail(rest))

sort_by_confidence(pairs) == sort_from(<<>>, pairs)

search_ignoring_failure(coll, hits, query_fault, confidence_threshold) ==
    sort_by_confidence(filter_relevant(coll, hits, confidence_threshold))

\* search_learned_knowledge, given what the query returned (or that it raised)
search_learned_knowledge(coll, hits, query_fault, confidence_threshold) ==
    IF query_fault THEN <<>>
    ELSE sort_by_confidence(filter_relevant(coll, hits, confidence_threshold))

update_usage_and_confidence(pairs, question, t) ==
    LET question_hash == md5(question)
        found == {i \in 1..Len(pairs) : pairs[i].question_hash = question_hash}
        first == CHOOSE i \in found : \A j \in found : i <= j
    IN  IF found = {} THEN pairs
        ELSE [pairs EXCEPT ![first] =
                 [@ EXCEPT !.usage_count = @ + 1, !.last_used = <<t>>,
                           !.confidence_score = Max(0, @ - 1)]]

\* _update_usage_count: the first pair with the question's hash, then a save
update_usage_count(pairs, question, t) ==
    LET question_hash == md5(question)
        found == {i \in 1..Len(pairs) : pairs[i].question_hash = question_hash}
        first == CHOOSE i \in found : \A j \in found : i <= j
    IN  IF found = {} THEN pairs
        ELSE [pairs EXCEPT ![first] =
                 [@ EXCEPT !.usage_count = @ + 1, !.last_used = <<t>>]]

get_learned_answer_counting_misses(pairs, kf, mf, coll, hits, query_fault, confidence_threshold, t, save_fault) ==
    LET relevant_pairs == search_learned_knowledge(coll, hits, query_fault, confidence_threshold)
        asked == IF relevant_pairs # <<>> THEN relevant_pairs[1].question
                 ELSE IF hits # <<>> THEN coll[hits[1].id].document ELSE <<>>
        updated == update_usage_count(pairs, asked, t)
        saved == save_knowledge(updated, kf, mf, t, save_fault)
    IN  [ result |-> IF relevant_pairs # <<>>
                        /\ relevant_pairs[1].confidence >= confidence_threshold
                     THEN [none |-> FALSE,
                           answer |-> relevant_pairs[1].answer,
                           confidence |-> relevant_pairs[1].confidence]
                     ELSE None,
          learned_qa_pairs |-> updated,
          knowledge_file |-> saved.knowledge_file,
          metadata_file |-> saved.metadata_file ]

\* get_learned_answer on the store at time t
get_learned_answer(pairs, kf, mf, coll, hits, query_fault, confidence_threshold, t, save_fault) ==
    LET relevant_pairs == search_learned_knowledge(coll, hits, query_fault, confidence_threshold)
        updated == update_usage_count(pairs, relevant_pairs[1].question, t)
        saved == save_knowledge(updated, kf, mf, t, save_fault)
    IN  IF relevant_pairs # <<>>
           /\ relevant_pairs[1].confidence >= confidence_threshold
        THEN [ result |-> [none |-> FALSE,
                           answer |-> relevant_pairs[1].answer,
                           confidence |-> relevant_pairs[1].confidence],
               learned_qa_pairs |-> updated,
               knowledge_file |-> saved.knowledge_file,
               metadata_file |-> saved.metadata_file ]
        ELSE [ result |-> None,
               learned_qa_pairs |-> pairs,
               knowledge_file |-> kf,
               metadata_file |-> mf ]

-----------------------------------------------------------------------------
(* Knowledge Store operations *)

\* The scheduler's driver thread, and a caller that triggers a job by hand
Threads == {"driver", "manual"}

\* No job body is executing on a thread
NoJob == [job |-> "none", by |-> "none"]

\* One store instance, nothing scheduled yet
AuxInit ==
    /\ fg_pairs = <<>>
    /\ due = {}
    /\ active = [th \in Threads |-> NoJob]
    /\ driver_alive = TRUE
    /\ outcomes = <<>>

Init ==
    /\ learned_qa_pairs = <<>>
    /\ knowledge_file = AbsentFile
    /\ metadata_file = AbsentMeta
    /\ learned_collection = <<>>
    /\ now = 0
    /\ last = [op |-> "init"]
    /\ served = <<>>
    /\ learning_system = TRUE
    /\ chat_interactions = <<>>
    /\ interaction_file = [state |-> "absent", interactions |-> <<>>]
    /\ pc = [th \in Threads |-> "idle"]
    /\ unprocessed = [th \in Threads |-> <<>>]
    /\ runs = 0
    /\ run_start = [th \in Threads |-> {}]
    /\ run_submitted = [th \in Threads |-> <<>>]
    /\ contributed = <<>>
    /\ excel_folder = {}
    /\ backup_folder = {}
    /\ he_collection = <<>>
    /\ chroma_exists = FALSE
    /\ excel_files = [th \in Threads |-> <<>>]
    /\ caller = [th \in Threads |-> "none"]
    /\ drops = 0
    /\ daily_log = [th \in Threads |-> <<>>]
    /\ run_info = [th \in Threads |-> <<>>]
    /\ AuxInit

IngestFrom(payloads, save_faults, add_faults) ==
    /\ now < MaxTime
    /\ \E payload \in payloads, save_fault \in save_faults, add_fault \in add_faults :
        \E out \in {ingest_qa_json(payload, learned_qa_pairs, knowledge_file, metadata_file,
                                    learned_collection, now, save_fault, add_fault)} :
            /\ Len(out.learned_qa_pairs) <= MaxPairs
            /\ learned_qa_pairs' = out.learned_qa_pairs
            /\ knowledge_file' = out.knowledge_file
            /\ metadata_file' = out.metadata_file
            /\ learned_collection' = out.learned_collection
            /\ now' = now + 1
            /\ last' = [op |-> "ingest", payload |-> payload, save_fault |-> save_fault,
                        add_fault |-> add_fault, result |-> out.result]
            /\ UNCHANGED <<served, learn_vars, daily_vars>>

Ingest == IngestFrom(Payloads, SaveFaults, BOOLEAN)

\* The reduced ingest that fills the store for the retrieval operations
IngestSimple == IngestFrom(SimplePayloads, {"none"}, BOOLEAN)

Search ==
    /\ now < MaxTime
    /\ \E n_results \in Limits, confidence_threshold \in Thresholds, query_fault \in BOOLEAN :
       \E hits \in query_results(learned_collection, n_results) :
          /\ last' = [op |-> "search", hits |-> hits, n_results |-> n_results,
                      query_fault |-> query_fault,
                      confidence_threshold |-> confidence_threshold,
                      result |-> search_learned_knowledge(learned_collection, hits,
                                                          query_fault, confidence_threshold)]
          /\ now' = now + 1
          /\ UNCHANGED <<store_vars, served, learn_vars, daily_vars>>

\* served: how often, and when last, each question id was handed out as an answer
record_served(h, t) ==
    [x \in DOMAIN served \cup {h} |->
        IF x = h
        THEN [n |-> (IF h \in DOMAIN served THEN served[h].n ELSE 0) + 1, at |-> t]
        ELSE served[x]]

GetAnswerWith(save_faults) ==
    /\ now < MaxTime
    /\ \E confidence_threshold \in Thresholds, query_fault \in BOOLEAN,
          save_fault \in save_faults :
       \E hits \in query_results(learned_collection, 1) :
       \E out \in {get_learned_answer(learned_qa_pairs, knowledge_file, metadata_file,
                                      learned_collection, hits, query_fault,
                                      confidence_threshold, now, save_fault)} :
          /\ learned_qa_pairs' = out.learned_qa_pairs
          /\ knowledge_file' = out.knowledge_file
          /\ metadata_file' = out.metadata_file
          /\ last' = [op |-> "get_answer", hits |-> hits, query_fault |-> query_fault,
                      confidence_threshold |-> confidence_threshold,
                      save_fault |-> save_fault, result |-> out.result]
          /\ served' = IF out.result.none THEN served
                       ELSE record_served(hits[1].id, now)
          /\ now' = now + 1
          /\ UNCHANGED <<learned_collection, learn_vars, daily_vars>>

GetAnswer == GetAnswerWith(SaveFaults)

StoreNext == Ingest /\ UNCHANGED aux_vars

StoreSpec == Init /\ [][StoreNext]_vars

QueryNext ==
    \/ IngestSimple /\ UNCHANGED aux_vars
    \/ Search /\ UNCHANGED aux_vars
    \/ GetAnswer /\ UNCHANGED aux_vars

QuerySpec == Init /\ [][QueryNext]_vars

-----------------------------------------------------------------------------
(* AdaptiveLearningSystem: clearing the learned knowledge *)

\* What can raise in clear_learned_knowledge: the index calls, either os.remove
ClearFaults == {"none", "index", "remove_knowledge", "remove_metadata"}

clear_without_exists_checks(kf, mf, coll, fault) ==
    IF fault = "index"
    THEN [result |-> FALSE, learned_collection |-> coll,
          knowledge_file |-> kf, metadata_file |-> mf]
    ELSE IF kf.state = "absent" \/ fault = "remove_knowledge"
    THEN [result |-> FALSE, learned_collection |-> <<>>,
          knowledge_file |-> kf, metadata_file |-> mf]
    ELSE IF mf.state = "absent" \/ fault = "remove_metadata"
    THEN [result |-> FALSE, learned_collection |-> <<>>,
          knowledge_file |-> AbsentFile, metadata_file |-> mf]
    ELSE [result |-> TRUE, learned_collection |-> <<>>,
          knowledge_file |-> AbsentFile, metadata_file |-> AbsentMeta]

\* clear_learned_knowledge after self.learned_qa_pairs = []: delete the ids of
\* the collection if any, remove each file if it exists; an exception ends the
\* call where it is raised and the call returns False
clear_learned_knowledge(kf, mf, coll, fault) ==
    IF fault = "index"
    THEN [result |-> FALSE, learned_collection |-> coll,
          knowledge_file |-> kf, metadata_file |-> mf]
    ELSE IF kf.state # "absent" /\ fault = "remove_knowledge"
    THEN [result |-> FALSE, learned_collection |-> <<>>,
          knowledge_file |-> kf, metadata_file |-> mf]
    ELSE IF mf.state # "absent" /\ fault = "remove_metadata"
    THEN [result |-> FALSE, learned_collection |-> <<>>,
          knowledge_file |-> AbsentFile, metadata_file |-> mf]
    ELSE [result |-> TRUE, learned_collection |-> <<>>,
          knowledge_file |-> AbsentFile, metadata_file |-> AbsentMeta]

ClearLearnedKnowledge ==
    /\ \E fault \in ClearFaults :
       \E out \in {clear_learned_knowledge(knowledge_file, metadata_file,
                                           learned_collection, fault)} :
          /\ learned_qa_pairs' = <<>>
          /\ learned_collection' = out.learned_collection
          /\ knowledge_file' = out.knowledge_file
          /\ metadata_file' = out.metadata_file
          /\ last' = [op |-> "clear", fault |-> fault, result |-> out.result,
                      before |-> <<learned_qa_pairs, knowledge_file, metadata_file,
                                   learned_collection>>,
                      again |-> (last.op = "clear" /\ last.result),
                      wiped |-> IF last.op = "clear" THEN last.wiped
                                ELSE knowledge_file.pairs # <<>>]
    /\ served' = <<>>
    /\ UNCHANGED <<now, learn_vars, daily_vars>>

\* Ingests whose save may fail, answers, and wipes
WipeNext ==
    \/ IngestFrom(SimplePayloads, SaveFaults, BOOLEAN) /\ UNCHANGED aux_vars
    \/ GetAnswerWith({"none"}) /\ UNCHANGED aux_vars
    \/ ClearLearnedKnowledge /\ UNCHANGED aux_vars

WipeSpec == Init /\ [][WipeNext]_vars

-----------------------------------------------------------------------------
(* Two AdaptiveLearningSystem instances on the same knowledge_db_path *)

\* ingest_qa_json on the foreground instance: its own list, the shared files and index
FgIngest ==
    /\ now < MaxTime
    /\ \E payload \in SimplePayloads :
        \E out \in {ingest_qa_json(payload, fg_pairs, knowledge_file, metadata_file,
                                    learned_collection, now, "none", FALSE)} :
            /\ Len(out.learned_qa_pairs) <= MaxPairs
            /\ fg_pairs' = out.learned_qa_pairs
            /\ knowledge_file' = out.knowledge_file
            /\ metadata_file' = out.metadata_file
            /\ learned_collection' = out.learned_collection
            /\ now' = now + 1
            /\ last' = [op |-> "fg_ingest", payload |-> payload, result |-> out.result]
            /\ UNCHANGED <<learned_qa_pairs, served, learn_vars, daily_vars, sched_vars>>

\* get_learned_answer on the foreground instance
FgGetAnswer ==
    /\ now < MaxTime
    /\ \E confidence_threshold \in Thresholds :
       \E hits \in query_results(learned_collection, 1) :
       \E out \in {get_learned_answer(fg_pairs, knowledge_file, metadata_file,
                                      learned_collection, hits, FALSE,
                                      confidence_threshold, now, "none")} :
          /\ fg_pairs' = out.learned_qa_pairs
          /\ knowledge_file' = out.knowledge_file
          /\ metadata_file' = out.metadata_file
          /\ last' = [op |-> "fg_get_answer", hits |-> hits,
                      confidence_threshold |-> confidence_threshold,
                      result |-> out.result]
          /\ now' = now + 1
          /\ UNCHANGED <<learned_qa_pairs, learned_collection, served, learn_vars,
                         daily_vars, sched_vars>>

\* Both instances were constructed on the empty store; no write fails
SharedNext ==
    \/ IngestSimple /\ UNCHANGED aux_vars
    \/ GetAnswerWith({"none"}) /\ UNCHANGED aux_vars
    \/ FgIngest
    \/ FgGetAnswer

SharedSpec == Init /\ [][SharedNext]_vars

-----------------------------------------------------------------------------
(* ScheduledDataLoader: chat interaction learning *)

Queries == {Q1, QShort}
Responses == {A1, AShort}
FileFaults == {"none", "open", "dump"}

\* save_chat_interactions: the file rewritten whole; any exception is logged and dropped
save_chat_interactions(interactions, file, fault) ==
    CASE fault = "open" -> file
      [] fault = "dump" -> [state |-> "partial", interactions |-> <<>>]
      [] fault = "none" -> [state |-> "ok", interactions |-> interactions]

CaptureFrom(queries, responses, faults, limit) ==
    /\ Len(chat_interactions) < limit
    /\ \E user_query \in queries, bot_response \in responses, fault \in faults :
          LET interaction == [ timestamp |-> now,
                               user_query |-> user_query,
                               bot_response |-> bot_response,
                               processed |-> FALSE,
                               learned_timestamp |-> <<>> ]
          IN  /\ chat_interactions' = Append(chat_interactions, interaction)
              /\ interaction_file' = save_chat_interactions(chat_interactions',
                                                            interaction_file, fault)
              /\ contributed' = Append(contributed, 0)
              /\ now' = now + 1
              /\ last' = [op |-> "capture", fault |-> fault]
              /\ UNCHANGED <<store_vars, served, learning_system, pc, unprocessed, runs,
                             run_start, run_submitted, daily_vars>>

CaptureChatInteraction == CaptureFrom(Queries, Responses, FileFaults, MaxInteractions)

select_all(interactions) == [i \in 1..Len(interactions) |-> i]

select_first_unprocessed(interactions) ==
    LET open == {i \in 1..Len(interactions) : ~interactions[i].processed}
    IN  IF open = {} THEN <<>> ELSE <<CHOOSE i \in open : \A j \in open : i <= j>>

\* unprocessed = [i for i in self.chat_interactions if not i.get("processed", False)]
select_unprocessed(interactions) ==
    LET keep(i) == ~interactions[i].processed
        F[n \in 0..Len(interactions)] ==
            IF n = 0 THEN <<>>
            ELSE IF keep(n) THEN Append(F[n - 1], n) ELSE F[n - 1]
    IN  F[Len(interactions)]

mark_processed_always(interaction, success, t) ==
    [interaction EXCEPT !.processed = TRUE, !.learned_timestamp = <<t>>]

mark_processed_consuming(interaction, success, t) ==
    IF success
    THEN [interaction EXCEPT !.processed = TRUE, !.learned_timestamp = <<t>>,
                             !.bot_response = <<>>]
    ELSE interaction

\* if success: interaction["processed"] = True; interaction["learned_timestamp"] = now
mark_processed(interaction, success, t) ==
    IF success
    THEN [interaction EXCEPT !.processed = TRUE, !.learned_timestamp = <<t>>]
    ELSE interaction

\* The Q&A pair process_chat_interactions builds from an interaction
qa_pair_of(interaction) ==
    [shape |-> "single",
     items |-> <<Candidate(Str(interaction.user_query), Str(interaction.bot_response),
                           "chat_interaction")>>]

\* process_chat_interactions, up to the loop: the two early returns, else the local list
ProcessStartFrom(th, entries) ==
    /\ pc[th] \in entries
    /\ runs < MaxRuns
    /\ runs' = runs + 1
    /\ run_start' = [run_start EXCEPT
                        ![th] = {i \in 1..Len(chat_interactions) :
                                    ~chat_interactions[i].processed}]
    /\ run_submitted' = [run_submitted EXCEPT ![th] = <<>>]
    /\ caller' = [caller EXCEPT ![th] = IF pc[th] = "daily_learn" THEN "daily" ELSE "none"]
    /\ IF ~learning_system \/ select_unprocessed(chat_interactions) = <<>>
       THEN /\ last' = [op |-> "learn_done", thread |-> th]
            /\ pc' = [pc EXCEPT ![th] = "idle"]
            /\ UNCHANGED unprocessed
       ELSE /\ pc' = [pc EXCEPT ![th] = "learn_loop"]
            /\ unprocessed' = [unprocessed EXCEPT
                                  ![th] = select_unprocessed(chat_interactions)]
            /\ last' = [op |-> "learn_start", thread |-> th]
    /\ UNCHANGED <<store_vars, now, served, learning_system, chat_interactions,
                   interaction_file, contributed, excel_folder, backup_folder,
                   he_collection, chroma_exists, excel_files, drops, daily_log, run_info>>

\* Called by the hourly schedule or by hand (idle), or inline by the daily job
ProcessStart(th) == ProcessStartFrom(th, {"idle", "daily_learn"})

\* One turn of the loop: ingest the pair, mark the interaction if ingest succeeded
ProcessStepWith(th, save_faults, add_faults) ==
    /\ pc[th] = "learn_loop"
    /\ unprocessed[th] # <<>>
    /\ \E save_fault \in save_faults, add_fault \in add_faults :
       \E out \in {ingest_qa_json(qa_pair_of(chat_interactions[Head(unprocessed[th])]),
                                  learned_qa_pairs, knowledge_file, metadata_file,
                                  learned_collection, now, save_fault, add_fault)} :
          LET i == Head(unprocessed[th]) IN
          /\ Len(out.learned_qa_pairs) <= MaxPairs
          /\ learned_qa_pairs' = out.learned_qa_pairs
          /\ knowledge_file' = out.knowledge_file
          /\ metadata_file' = out.metadata_file
          /\ learned_collection' = out.learned_collection
          /\ chat_interactions' =
                [chat_interactions EXCEPT ![i] = mark_processed(@, out.result, now)]
          /\ unprocessed' = [unprocessed EXCEPT ![th] = Tail(@)]
          /\ run_submitted' = [run_submitted EXCEPT ![th] = Append(@, i)]
          /\ contributed' = [contributed EXCEPT ![i] = @ + out.n_valid]
          /\ now' = IF out.n_valid > 0 THEN now + 1 ELSE now
          /\ last' = [op |-> "learn_step", thread |-> th, index |-> i,
                      result |-> out.result]
          /\ UNCHANGED <<served, learning_system, interaction_file, pc, runs, run_start,
                         daily_vars>>

ProcessStep(th) == ProcessStepWith(th, {"none", "open_knowledge"}, BOOLEAN)

\* After the loop: save the interactions and return
ProcessFinishWith(th, faults) ==
    /\ pc[th] = "learn_loop"
    /\ unprocessed[th] = <<>>
    /\ \E fault \in faults :
          interaction_file' = save_chat_interactions(chat_interactions, interaction_file,
                                                     fault)
    /\ pc' = [pc EXCEPT ![th] = "idle"]
    /\ last' = [op |-> "learn_done", thread |-> th]
    /\ UNCHANGED <<store_vars, now, served, learning_system, chat_interactions,
                   unprocessed, runs, run_start, run_submitted, contributed, daily_vars>>

ProcessFinish(th) == ProcessFinishWith(th, FileFaults)

\* Construction may leave learning_system at None
LearnInit ==
    /\ learned_qa_pairs = <<>>
    /\ knowledge_file = AbsentFile
    /\ metadata_file = AbsentMeta
    /\ learned_collection = <<>>
    /\ now = 0
    /\ last = [op |-> "init"]
    /\ served = <<>>
    /\ learning_system \in BOOLEAN
    /\ chat_interactions = <<>>
    /\ interaction_file = [state |-> "absent", interactions |-> <<>>]
    /\ pc = [th \in Threads |-> "idle"]
    /\ unprocessed = [th \in Threads |-> <<>>]
    /\ runs = 0
    /\ run_start = [th \in Threads |-> {}]
    /\ run_submitted = [th \in Threads |-> <<>>]
    /\ contributed = <<>>
    /\ excel_folder = {}
    /\ backup_folder = {}
    /\ he_collection = <<>>
    /\ chroma_exists = FALSE
    /\ excel_files = [th \in Threads |-> <<>>]
    /\ caller = [th \in Threads |-> "none"]
    /\ drops = 0
    /\ daily_log = [th \in Threads |-> <<>>]
    /\ run_info = [th \in Threads |-> <<>>]
    /\ AuxInit

\* Captures by the foreground, runs of the job one after another on the driver
LearnNext ==
    \/ CaptureChatInteraction /\ UNCHANGED aux_vars
    \/ ProcessStart("driver") /\ UNCHANGED aux_vars
    \/ ProcessStep("driver") /\ UNCHANGED aux_vars
    \/ ProcessFinish("driver") /\ UNCHANGED aux_vars

LearnSpec == LearnInit /\ [][LearnNext]_vars

\* The hourly schedule: schedule.every().hour.do(self.process_chat_interactions)
\* runs the job again after every capture, so a capture is followed by a run.
\* Captured responses are long enough or too short; the file system does not fail
HourlyCapture ==
    /\ runs < MaxRuns
    /\ CaptureFrom({Q1}, Responses, {"none"}, MaxInteractions)

\* The loader was constructed with its learning system
HourlyInit == LearnInit /\ learning_system

\* One pass of the job's loop, and its end, with the store's files writable
HourlyStep == ProcessStepWith("driver", {"none"}, {FALSE})

HourlyFinish == ProcessFinishWith("driver", {"none"})

HourlyNext ==
    \/ HourlyCapture /\ UNCHANGED aux_vars
    \/ ProcessStart("driver") /\ UNCHANGED aux_vars
    \/ HourlyStep /\ UNCHANGED aux_vars
    \/ HourlyFinish /\ UNCHANGED aux_vars

\* The driver thread keeps calling run_pending: a job that is due starts, and a
\* job body that has started goes on to its end
HourlySpec ==
    /\ HourlyInit /\ [][HourlyNext]_vars
    /\ WF_vars(ProcessStart("driver") /\ UNCHANGED aux_vars)
    /\ WF_vars(HourlyStep /\ UNCHANGED aux_vars)
    /\ WF_vars(HourlyFinish /\ UNCHANGED aux_vars)

-----------------------------------------------------------------------------
(* ScheduledDataLoader: the daily data load *)

\* File names are sequences of tokens: a stem, ".", an extension
FileNames == { <<"a", ".", "xlsx">>, <<"b", ".", "xls">>, <<"notes", ".", "txt">> }

\* What a dropped file holds: nothing pandas can parse, or its rows
Unparsable == [readable |-> FALSE, rows |-> <<>>]
Sheets == { Unparsable,
            [readable |-> TRUE, rows |-> <<"s1">>],
            [readable |-> TRUE, rows |-> <<"r1", "r2", "r3">>] }

patterns == {"xlsx", "xls", "xlsm"}

\* Someone puts a spreadsheet into the inbox (replacing one of the same name);
\* files arrive while no load loop is going through the inbox
DropFile ==
    /\ drops < MaxDrops
    /\ \A th \in Threads : pc[th] # "daily_loop"
    /\ \E name \in FileNames, sheet \in Sheets :
          /\ name[Len(name)] \notin patterns => sheet = Unparsable
          /\ excel_folder' = {f \in excel_folder : f.name # name}
                \cup {[name |-> name, mtime |-> now, readable |-> sheet.readable,
                       rows |-> sheet.rows]}
          /\ last' = [op |-> "drop", name |-> name]
    /\ drops' = drops + 1
    /\ now' = now + 1
    /\ UNCHANGED <<store_vars, served, learn_vars, backup_folder, he_collection,
                   chroma_exists, excel_files, caller, daily_log, run_info>>

\* excel_files.sort(key=getmtime, reverse=True): newest first
RECURSIVE newest_first(_)
newest_first(files) ==
    IF files = {} THEN <<>>
    ELSE LET f == CHOOSE x \in files : \A y \in files : y.mtime <= x.mtime
         IN  <<f>> \o newest_first(files \ {f})

find_excel_files(folder) ==
    newest_first({f \in folder : f.name[Len(f.name)] \in patterns})

\* The rows one collection.add takes; the code's batch_size is 100
batch_size == 2

\* os.path.basename(excel_file).replace('.', '_')
file_id_of(name) == [i \in 1..Len(name) |-> IF name[i] = "." THEN "_" ELSE name[i]]

\* f"excel_{file_id}_{idx}", idx counting the rows from 0
row_id(name, idx) == <<"excel", "_">> \o file_id_of(name) \o <<"_", ToString(idx)>>

row_entry(file, idx, t) ==
    [ document |-> file.rows[idx + 1],
      source |-> "excel_import",
      file_name |-> file.name,
      loaded_timestamp |-> t ]

\* The batch loop of load_excel_to_chroma from row `from` on; the add of batch
\* number fail_batch raises
RECURSIVE add_batches(_, _, _, _, _, _)
add_batches(coll, file, t, from, batch_no, fail_batch) ==
    IF from >= Len(file.rows) THEN [collection |-> coll, failed |-> FALSE, total_added |-> from]
    ELSE IF batch_no = fail_batch
         THEN [collection |-> coll, failed |-> TRUE, total_added |-> from]
         ELSE LET to == Min(from + batch_size, Len(file.rows))
                  idxs == [k \in 1..(to - from) |-> from + k - 1]
              IN  add_batches(
                      collection_add(coll,
                                     [k \in 1..Len(idxs) |-> row_id(file.name, idxs[k])],
                                     [k \in 1..Len(idxs) |-> row_entry(file, idxs[k], t)],
                                     FALSE),
                      file, t, to, batch_no + 1, fail_batch)

\* load_excel_to_chroma: the count it returns, and what it left in the index
load_excel_to_chroma(coll, exists, file, t, read_fault, fail_batch) ==
    IF ~file.readable \/ read_fault
    THEN [loaded_count |-> 0, collection |-> coll, chroma_exists |-> exists, committed |-> 0]
    ELSE LET done == add_batches(coll, file, t, 0, 1, fail_batch)
         IN  [ loaded_count |-> IF done.failed THEN 0 ELSE done.total_added,
               collection |-> done.collection,
               chroma_exists |-> TRUE,
               committed |-> done.total_added ]

\* f"{name}_processed_{timestamp}{ext}" in the backup folder; the move keeps the mtime
archived(file, t) ==
    [ kind |-> "file",
      name |-> <<SubSeq(file.name, 1, Len(file.name) - 2), "_processed_", t,
                 SubSeq(file.name, Len(file.name) - 1, Len(file.name))>>,
      origin |-> file.name,
      mtime |-> file.mtime,
      rows |-> file.rows ]

archive_by_copy(folder, backups, file, t, fault) ==
    IF fault \/ file \notin folder
    THEN [excel_folder |-> folder, backup_folder |-> backups]
    ELSE [excel_folder |-> folder, backup_folder |-> backups \cup {archived(file, t)}]

\* archive_processed_file: shutil.move; any exception is logged and dropped
archive_processed_file(folder, backups, file, t, fault) ==
    IF fault \/ file \notin folder
    THEN [excel_folder |-> folder, backup_folder |-> backups]
    ELSE [excel_folder |-> folder \ {file}, backup_folder |-> backups \cup {archived(file, t)}]

backup_skipped(backups, exists, t, fault) == backups

\* backup_chroma_db: copytree of the index storage; any exception is logged and dropped
backup_chroma_db(backups, exists, t, fault) ==
    IF exists /\ ~fault
    THEN backups \cup {[kind |-> "dir", name |-> <<"chroma_backup_", t>>, origin |-> <<>>,
                        mtime |-> t, rows |-> <<>>]}
    ELSE backups

daily_runs == Len(daily_log["driver"]) + Len(daily_log["manual"])

snapshot_raises_on_fault(fault) == fault

\* backup_chroma_db wraps its body in try / except Exception: nothing it meets
\* reaches the job that called it
snapshot_raises(fault) == FALSE

\* daily_data_load_job up to the loop: find the files, return if none, else snapshot
DailyStart(th) ==
    /\ pc[th] = "idle"
    /\ daily_runs < MaxDailyRuns
    /\ \E fault \in BOOLEAN :
          /\ IF find_excel_files(excel_folder) = <<>>
             THEN /\ ~fault
                  /\ last' = [op |-> "daily_done", thread |-> th, snapshot_fault |-> FALSE]
                  /\ UNCHANGED <<pc, excel_files, backup_folder>>
             ELSE /\ fault => chroma_exists
                  /\ IF snapshot_raises(fault)
                     THEN /\ last' = [op |-> "daily_done", thread |-> th,
                                      snapshot_fault |-> fault]
                          /\ UNCHANGED <<pc, excel_files, backup_folder>>
                     ELSE /\ pc' = [pc EXCEPT ![th] = "daily_loop"]
                          /\ excel_files' = [excel_files EXCEPT
                                                ![th] = find_excel_files(excel_folder)]
                          /\ backup_folder' = backup_chroma_db(backup_folder, chroma_exists,
                                                               now, fault)
                          /\ last' = [op |-> "daily_start", thread |-> th,
                                      snapshot_fault |-> fault]
          /\ run_info' = [run_info EXCEPT
                             ![th] = Append(@, [found |-> find_excel_files(excel_folder),
                                                existed |-> chroma_exists,
                                                fault |-> fault, at |-> now])]
    /\ daily_log' = [daily_log EXCEPT ![th] = Append(@, <<>>)]
    /\ now' = now + 1
    /\ UNCHANGED <<store_vars, served, chat_vars, excel_folder, he_collection,
                   chroma_exists, caller, drops>>

\* One turn of the loop: load the file, then archive it
DailyFileWith(th, fail_batches, archive_faults) ==
    /\ pc[th] = "daily_loop"
    /\ excel_files[th] # <<>>
    /\ \E read_fault \in {FALSE}, fail_batch \in fail_batches, archive_fault \in archive_faults :
          LET excel_file == Head(excel_files[th])
              loaded == load_excel_to_chroma(he_collection, chroma_exists, excel_file, now,
                                             read_fault, fail_batch)
              moved == archive_processed_file(excel_folder, backup_folder, excel_file, now,
                                              archive_fault)
              run == Len(daily_log[th])
          IN  /\ (read_fault \/ ~excel_file.readable \/ archive_fault) => fail_batch = 0
              /\ fail_batch * batch_size < Len(excel_file.rows) + batch_size
              /\ he_collection' = loaded.collection
              /\ chroma_exists' = loaded.chroma_exists
              /\ excel_folder' = moved.excel_folder
              /\ backup_folder' = moved.backup_folder
              /\ daily_log' = [daily_log EXCEPT ![th][run] =
                    Append(@, [file |-> excel_file, loaded_count |-> loaded.loaded_count,
                               committed |-> loaded.committed, at |-> now,
                               archive_fault |-> archive_fault,
                               faults |-> read_fault \/ fail_batch # 0 \/ archive_fault])]
              /\ last' = [op |-> "daily_file", thread |-> th, name |-> excel_file.name]
    /\ excel_files' = [excel_files EXCEPT ![th] = Tail(@)]
    /\ UNCHANGED <<store_vars, now, served, learn_vars, caller, drops, run_info>>

DailyFile(th) == DailyFileWith(th, 0..2, BOOLEAN)

after_loop_return == "idle"

\* What follows the loop: self.process_chat_interactions()
after_loop == "daily_learn"

\* After the loop: on to the call of process_chat_interactions
DailyLoaded(th) ==
    /\ pc[th] = "daily_loop"
    /\ excel_files[th] = <<>>
    /\ pc' = [pc EXCEPT ![th] = after_loop]
    /\ last' = [op |-> "daily_loaded", thread |-> th]
    /\ UNCHANGED <<store_vars, now, served, chat_vars, daily_vars>>

\* An interaction captured before the first daily run
captured_before == [ timestamp |-> 0, user_query |-> Q1, bot_response |-> A1,
                     processed |-> FALSE, learned_timestamp |-> <<>> ]

\* As LearnInit, with an interaction log that is empty or holds one capture
DailyInit ==
    /\ learned_qa_pairs = <<>>
    /\ knowledge_file = AbsentFile
    /\ metadata_file = AbsentMeta
    /\ learned_collection = <<>>
    /\ now = 1
    /\ last = [op |-> "init"]
    /\ served = <<>>
    /\ learning_system \in BOOLEAN
    /\ chat_interactions \in {<<>>, <<captured_before>>}
    /\ interaction_file =
          IF chat_interactions = <<>>
          THEN [state |-> "absent", interactions |-> <<>>]
          ELSE save_chat_interactions(chat_interactions,
                                      [state |-> "absent", interactions |-> <<>>], "none")
    /\ pc = [th \in Threads |-> "idle"]
    /\ unprocessed = [th \in Threads |-> <<>>]
    /\ runs = 0
    /\ run_start = [th \in Threads |-> {}]
    /\ run_submitted = [th \in Threads |-> <<>>]
    /\ contributed = [i \in 1..Len(chat_interactions) |-> 0]
    /\ excel_folder = {}
    /\ backup_folder = {}
    /\ he_collection = <<>>
    /\ chroma_exists = FALSE
    /\ excel_files = [th \in Threads |-> <<>>]
    /\ caller = [th \in Threads |-> "none"]
    /\ drops = 0
    /\ daily_log = [th \in Threads |-> <<>>]
    /\ run_info = [th \in Threads |-> <<>>]
    /\ AuxInit

\* The daily job on the driver, with its inline interaction learning, while
\* files arrive in the inbox
DailyNext ==
    \/ DropFile /\ UNCHANGED aux_vars
    \/ DailyStart("driver") /\ UNCHANGED aux_vars
    \/ DailyFile("driver") /\ UNCHANGED aux_vars
    \/ DailyLoaded("driver") /\ UNCHANGED aux_vars
    \/ ProcessStartFrom("driver", {"daily_learn"}) /\ UNCHANGED aux_vars
    \/ ProcessStepWith("driver", {"none"}, {FALSE}) /\ UNCHANGED aux_vars
    \/ ProcessFinishWith("driver", {"none"}) /\ UNCHANGED aux_vars

DailySpec == DailyInit /\ [][DailyNext]_vars

-----------------------------------------------------------------------------
(* load_excel_to_chroma: the ids of the rows of two files of one inbox *)

\* Names find_excel_files can return together: they match a pattern and differ
InboxNames == { <<"a", ".", "xlsx">>, <<"b", ".", "xlsx">>, <<"a", ".", "xls">>,
                <<"a", ".", "b", ".", "xlsx">>, <<"a", "_", "b", ".", "xlsx">>,
                <<"a", "_", "b", ".", "xls">> }

MaxRowIdx == 2

\* The ids load_excel_to_chroma builds for a row of each of two files
RowIds ==
    /\ \E name1, name2 \in InboxNames, idx1, idx2 \in 0..MaxRowIdx :
          /\ name1 # name2
          /\ last' = [op |-> "row_ids", name1 |-> name1, name2 |-> name2,
                      idx1 |-> idx1, idx2 |-> idx2,
                      id1 |-> row_id(name1, idx1), id2 |-> row_id(name2, idx2)]
    /\ UNCHANGED <<store_vars, now, served, learn_vars, daily_vars, aux_vars>>

IdNext == RowIds

IdSpec == Init /\ [][IdNext]_vars

-----------------------------------------------------------------------------
(* ScheduledDataLoader: the weekly backup job and the cleanup of old backups *)

\* self.cleanup_old_backups(days=30)
RetentionDays == 30

is_old_entry(b, t, days) == b.mtime < t - days

\* What cleanup finds old: os.path.isfile(file_path) and file_time < cutoff_date
is_old_file(b, t, days) == b.kind = "file" /\ b.mtime < t - days

old_files(backups, t, days) == {b \in backups : is_old_file(b, t, days)}

\* cleanup_old_backups: removes the old files; an os.remove that raises ends the
\* loop with the files removed so far (removed) gone and the exception logged
cleanup_old_backups(backups, t, days, fault, removed) ==
    IF fault THEN backups \ removed ELSE backups \ old_files(backups, t, days)

\* The export file the weekly job writes into the backup folder
knowledge_backup(pairs, t) ==
    [kind |-> "file", name |-> <<"learned_knowledge_backup_", t, Len(pairs)>>,
     origin |-> <<>>, mtime |-> t, rows |-> <<>>]

\* weekly_backup_job is entered
WeeklyStart(th) ==
    /\ pc[th] = "idle"
    /\ pc' = [pc EXCEPT ![th] = "weekly_export"]
    /\ last' = [op |-> "weekly_start", thread |-> th]
    /\ UNCHANGED <<store_vars, now, served, chat_vars, daily_vars>>

\* if self.learning_system: export the learned knowledge into a timestamped file
WeeklyExport(th) ==
    /\ pc[th] = "weekly_export"
    /\ backup_folder' = IF learning_system
                        THEN backup_folder \cup {knowledge_backup(learned_qa_pairs, now)}
                        ELSE backup_folder
    /\ pc' = [pc EXCEPT ![th] = "weekly_cleanup"]
    /\ last' = [op |-> "weekly_export", thread |-> th, exported |-> learning_system]
    /\ UNCHANGED <<store_vars, now, served, chat_vars, excel_folder, he_collection,
                   chroma_exists, excel_files, caller, drops, daily_log, run_info>>

\* cleanup_old_backups(days), as the last statement of the job on thread th
CleanupBy(th, entry, retentions) ==
    /\ pc[th] = entry
    /\ \E days \in retentions, fault \in BOOLEAN :
       \E removed \in SUBSET old_files(backup_folder, now, days) :
          /\ IF fault THEN removed # old_files(backup_folder, now, days)
                      ELSE removed = old_files(backup_folder, now, days)
          /\ backup_folder' = cleanup_old_backups(backup_folder, now, days, fault, removed)
          /\ last' = [op |-> "cleanup", thread |-> th, days |-> days, fault |-> fault,
                      before |-> backup_folder, at |-> now]
    /\ pc' = [pc EXCEPT ![th] = "idle"]
    /\ UNCHANGED <<store_vars, now, served, chat_vars, excel_folder, he_collection,
                   chroma_exists, excel_files, caller, drops, daily_log, run_info>>

\* The write of the export file raises: except Exception ends the job
WeeklyExportFails(th) ==
    /\ pc[th] = "weekly_export"
    /\ learning_system
    /\ pc' = [pc EXCEPT ![th] = "idle"]
    /\ last' = [op |-> "weekly_failed", thread |-> th]
    /\ UNCHANGED <<store_vars, now, served, chat_vars, daily_vars>>

WeeklyCleanupSkipped(th) ==
    /\ pc[th] = "weekly_cleanup"
    /\ pc' = [pc EXCEPT ![th] = "idle"]
    /\ last' = [op |-> "weekly_done", thread |-> th]
    /\ UNCHANGED <<store_vars, now, served, chat_vars, daily_vars>>

WeeklyCleanup(th) == CleanupBy(th, "weekly_cleanup", {RetentionDays})

\* cleanup_old_backups called on its own, with any retention window
Retentions == {7, RetentionDays}

Cleanup == CleanupBy("manual", "idle", Retentions) /\ UNCHANGED aux_vars

\* The ages in days of what the backup folder may hold
Ages == {5, 29, 30, 31, 60}

\* Backup-folder entries: files of every age, and snapshot directories
BackupArtifacts ==
    { [kind |-> "file", name |-> <<"backup_", age>>, origin |-> <<>>,
       mtime |-> Today - age, rows |-> <<>>] : age \in Ages }
    \cup
    { [kind |-> "dir", name |-> <<"chroma_backup_", age>>, origin |-> <<>>,
       mtime |-> Today - age, rows |-> <<>>] : age \in {5, 60} }

CleanupInit ==
    /\ learned_qa_pairs = <<>>
    /\ knowledge_file = AbsentFile
    /\ metadata_file = AbsentMeta
    /\ learned_collection = <<>>
    /\ now = Today
    /\ last = [op |-> "init"]
    /\ served = <<>>
    /\ learning_system = TRUE
    /\ chat_interactions = <<>>
    /\ interaction_file = [state |-> "absent", interactions |-> <<>>]
    /\ pc = [th \in Threads |-> "idle"]
    /\ unprocessed = [th \in Threads |-> <<>>]
    /\ runs = 0
    /\ run_start = [th \in Threads |-> {}]
    /\ run_submitted = [th \in Threads |-> <<>>]
    /\ contributed = <<>>
    /\ excel_folder = {}
    /\ backup_folder \in SUBSET BackupArtifacts
    /\ he_collection = <<>>
    /\ chroma_exists = FALSE
    /\ excel_files = [th \in Threads |-> <<>>]
    /\ caller = [th \in Threads |-> "none"]
    /\ drops = 0
    /\ daily_log = [th \in Threads |-> <<>>]
    /\ run_info = [th \in Threads |-> <<>>]
    /\ AuxInit

CleanupNext == Cleanup

CleanupSpec == CleanupInit /\ [][CleanupNext]_vars

\* A pair learned before the weekly job runs
learned_before == enrich_qa_pair(Candidate(Str(Q1), Str(A1), ""), 0)

\* As CleanupInit, with or without a learning system, whose store is empty or
\* holds one pair
WeeklyInit ==
    /\ learning_system \in BOOLEAN
    /\ learned_qa_pairs \in (IF learning_system THEN {<<>>, <<learned_before>>} ELSE {<<>>})
    /\ knowledge_file = IF learned_qa_pairs = <<>> THEN AbsentFile
                        ELSE [state |-> "ok", pairs |-> learned_qa_pairs]
    /\ metadata_file = IF learned_qa_pairs = <<>> THEN AbsentMeta
                       ELSE [state |-> "ok", total_pairs |-> 1, last_updated |-> 0]
    /\ learned_collection =
          IF learned_qa_pairs = <<>> THEN <<>>
          ELSE add_to_chroma(<<>>, learned_qa_pairs, FALSE)
    /\ now = Today
    /\ last = [op |-> "init"]
    /\ served = <<>>
    /\ chat_interactions = <<>>
    /\ interaction_file = [state |-> "absent", interactions |-> <<>>]
    /\ pc = [th \in Threads |-> "idle"]
    /\ unprocessed = [th \in Threads |-> <<>>]
    /\ runs = 0
    /\ run_start = [th \in Threads |-> {}]
    /\ run_submitted = [th \in Threads |-> <<>>]
    /\ contributed = <<>>
    /\ excel_folder = {}
    /\ backup_folder \in SUBSET BackupArtifacts
    /\ he_collection = <<>>
    /\ chroma_exists = FALSE
    /\ excel_files = [th \in Threads |-> <<>>]
    /\ caller = [th \in Threads |-> "none"]
    /\ drops = 0
    /\ daily_log = [th \in Threads |-> <<>>]
    /\ run_info = [th \in Threads |-> <<>>]
    /\ AuxInit

\* Runs of the weekly job on the driver
WeeklyNext ==
    \/ WeeklyStart("driver") /\ UNCHANGED aux_vars
    \/ WeeklyExport("driver") /\ UNCHANGED aux_vars
    \/ WeeklyExportFails("driver") /\ UNCHANGED aux_vars
    \/ WeeklyCleanup("driver") /\ UNCHANGED aux_vars

WeeklySpec == WeeklyInit /\ [][WeeklyNext]_vars

-----------------------------------------------------------------------------
(* ScheduledDataLoader: the scheduler thread, its jobs, and manual triggers *)

Jobs == {"daily", "hourly", "weekly"}

execution_context_detached(by, job) ==
    IF by = "driver" /\ job = "hourly" THEN "manual" ELSE by

\* schedule.run_pending() calls the job function on the thread that called it
execution_context(by, job) == by

catches_nothing(body) == FALSE

\* Each job function wraps its body in try / except Exception
catches(body) == body \in {"daily", "hourly", "weekly"}

jobs_known == Len(outcomes) + Cardinality(due)
                 + Cardinality({th \in Threads : active[th] # NoJob})

\* The schedule reaches the time of a job
BecomeDue(job) ==
    /\ job \notin due
    /\ jobs_known < MaxJobRuns
    /\ due' = due \cup {job}
    /\ UNCHANGED <<store_vars, now, last, served, learn_vars, daily_vars, fg_pairs,
                   active, driver_alive, outcomes>>

\* The first steps of a job function on thread th
JobStart(job, th) ==
    \/ job = "daily" /\ DailyStart(th)
    \/ job = "hourly" /\ ProcessStartFrom(th, {"idle"})
    \/ job = "weekly" /\ WeeklyStart(th)

\* The job function returned at once, or its body is now executing on th
started(by, job, th) ==
    IF pc'[th] = "idle"
    THEN /\ outcomes' = Append(outcomes, [job |-> job, by |-> by, outcome |-> "succeeded"])
         /\ UNCHANGED active
    ELSE /\ active' = [active EXCEPT ![th] = [job |-> job, by |-> by]]
         /\ UNCHANGED outcomes

\* run_scheduler: schedule.run_pending() runs a due job
Dispatch(job) ==
    /\ driver_alive
    /\ job \in due
    /\ pc["driver"] = "idle" /\ active["driver"] = NoJob
    /\ LET th == execution_context("driver", job)
       IN  /\ pc[th] = "idle" /\ active[th] = NoJob
           /\ JobStart(job, th)
           /\ started("driver", job, th)
    /\ due' = due \ {job}
    /\ UNCHANGED <<fg_pairs, driver_alive>>

\* manual_data_load, or a direct call of process_chat_interactions, from the foreground
ManualTrigger(job) ==
    /\ job \in {"daily", "hourly"}
    /\ jobs_known < MaxJobRuns
    /\ pc["manual"] = "idle" /\ active["manual"] = NoJob
    /\ JobStart(job, "manual")
    /\ started("manual", job, "manual")
    /\ UNCHANGED <<fg_pairs, due, driver_alive>>

\* A further step of the job body executing on th
JobStep(th) ==
    /\ active[th] # NoJob
    /\ \/ DailyFileWith(th, {0}, {FALSE})
       \/ DailyLoaded(th)
       \/ ProcessStartFrom(th, {"daily_learn"})
       \/ ProcessStepWith(th, {"none"}, {FALSE})
       \/ ProcessFinishWith(th, {"none"})
       \/ WeeklyExport(th)
       \/ WeeklyCleanup(th)
    /\ IF pc'[th] = "idle"
       THEN /\ outcomes' = Append(outcomes, [job |-> active[th].job, by |-> active[th].by,
                                             outcome |-> "succeeded"])
            /\ active' = [active EXCEPT ![th] = NoJob]
       ELSE UNCHANGED <<active, outcomes>>
    /\ UNCHANGED <<fg_pairs, due, driver_alive>>

\* The try blocks around the point where th is, innermost first
try_blocks(th) ==
    IF pc[th] = "learn_loop"
    THEN IF active[th].job = "daily" THEN <<"hourly", "daily">> ELSE <<"hourly">>
    ELSE <<active[th].job>>

\* Where an exception raised at the point where th is gets caught: the index of
\* the try block, 0 if it leaves the job function
handler(th) ==
    LET blocks == try_blocks(th)
        catching == {k \in 1..Len(blocks) : catches(blocks[k])}
    IN  IF catching = {} THEN 0 ELSE CHOOSE k \in catching : \A l \in catching : k <= l

\* An exception is raised inside the job body executing on th
Raise(th) ==
    /\ active[th] # NoJob
    /\ LET blocks == try_blocks(th)
           h == handler(th)
           outcome == IF h = 0 THEN "escaped"
                      ELSE IF h = Len(blocks) THEN "failed" ELSE "succeeded"
       IN  /\ outcomes' = Append(outcomes, [job |-> active[th].job, by |-> active[th].by,
                                            outcome |-> outcome])
           /\ driver_alive' = (driver_alive /\ ~(h = 0 /\ active[th].by = "driver"))
           /\ last' = [op |-> "raise", thread |-> th, job |-> active[th].job,
                       by |-> active[th].by, outcome |-> outcome]
    /\ active' = [active EXCEPT ![th] = NoJob]
    /\ pc' = [pc EXCEPT ![th] = "idle"]
    /\ excel_files' = [excel_files EXCEPT ![th] = <<>>]
    /\ unprocessed' = [unprocessed EXCEPT ![th] = <<>>]
    /\ UNCHANGED <<store_vars, now, served, learning_system, chat_interactions,
                   interaction_file, runs, run_start, run_submitted, contributed,
                   excel_folder, backup_folder, he_collection, chroma_exists, caller,
                   drops, daily_log, run_info, fg_pairs, due>>

\* One spreadsheet waiting in the inbox
waiting_file == [name |-> <<"a", ".", "xlsx">>, mtime |-> 0, readable |-> TRUE,
                 rows |-> <<"r1">>]

\* As DailyInit, with an inbox that is empty or holds one file
SchedInit ==
    /\ learned_qa_pairs = <<>>
    /\ knowledge_file = AbsentFile
    /\ metadata_file = AbsentMeta
    /\ learned_collection = <<>>
    /\ now = 1
    /\ last = [op |-> "init"]
    /\ served = <<>>
    /\ learning_system = TRUE
    /\ chat_interactions \in {<<>>, <<captured_before>>}
    /\ interaction_file =
          IF chat_interactions = <<>>
          THEN [state |-> "absent", interactions |-> <<>>]
          ELSE save_chat_interactions(chat_interactions,
                                      [state |-> "absent", interactions |-> <<>>], "none")
    /\ pc = [th \in Threads |-> "idle"]
    /\ unprocessed = [th \in Threads |-> <<>>]
    /\ runs = 0
    /\ run_start = [th \in Threads |-> {}]
    /\ run_submitted = [th \in Threads |-> <<>>]
    /\ contributed = [i \in 1..Len(chat_interactions) |-> 0]
    /\ excel_folder \in {{}, {waiting_file}}
    /\ backup_folder = {}
    /\ he_collection = <<>>
    /\ chroma_exists = FALSE
    /\ excel_files = [th \in Threads |-> <<>>]
    /\ caller = [th \in Threads |-> "none"]
    /\ drops = 0
    /\ daily_log = [th \in Threads |-> <<>>]
    /\ run_info = [th \in Threads |-> <<>>]
    /\ AuxInit

\* The scheduler thread running the due jobs, the foreground triggering jobs by hand
SchedNext ==
    \/ \E job \in Jobs : BecomeDue(job)
    \/ \E job \in Jobs : Dispatch(job)
    \/ \E job \in Jobs : ManualTrigger(job)
    \/ \E th \in Threads : JobStep(th)
    \/ \E th \in Threads : Raise(th)

SchedSpec == SchedInit /\ [][SchedNext]_vars

-----------------------------------------------------------------------------
(* Claims about the Knowledge Store *)

\* The records of a payload, as the three accepted shapes give them
payload_records(payload) ==
    IF payload.shape \in {"list", "envelope"} THEN payload.items
    ELSE IF payload.shape = "single"
              /\ payload.items[1].question.kind # "missing"
              /\ payload.items[1].answer.kind # "missing"
         THEN payload.items
         ELSE <<>>

\* Question and answer present, non-empty text, of the minimum lengths
passes_validation(c) ==
    /\ c.is_dict
    /\ c.question.kind = "str" /\ c.answer.kind = "str"
    /\ Len(strip(c.question.text)) >= MinQuestionLen
    /\ Len(strip(c.answer.text)) >= MinAnswerLen

validated(payload) == SelectSeq(payload_records(payload), passes_validation)

qa_of(pairs) == [i \in 1..Len(pairs) |-> <<pairs[i].question, pairs[i].answer>>]
qa_of_candidates(cs) == [i \in 1..Len(cs) |-> <<cs[i].question.text, cs[i].answer.text>>]

is_prefix(a, b) == Len(a) <= Len(b) /\ SubSeq(b, 1, Len(a)) = a

an_ingest_step == last'.op = "ingest" /\ now' = now + 1

\* C1: after any sequence of ingest calls the durable list holds at most one
\* entry per questionId (the hash of the question text).
C1_OneEntryPerQuestionId ==
    \A i, j \in 1..Len(knowledge_file.pairs) :
        knowledge_file.pairs[i].question_hash = knowledge_file.pairs[j].question_hash => i = j

\* C2: ingest adds to the durable list and to the index exactly the records
\* that pass validation; it returns success iff at least one record validated,
\* and leaves list, file and index unchanged when none did.
C2_IngestAppliesTheValidRecords ==
    [][an_ingest_step =>
        LET valid == validated(last'.payload)
            ids == {md5(valid[i].question.text) : i \in 1..Len(valid)}
        IN  /\ last'.result = (valid # <<>>)
            /\ valid = <<>> =>
                  UNCHANGED <<learned_qa_pairs, knowledge_file, metadata_file,
                              learned_collection>>
            /\ valid # <<>> =>
                  /\ qa_of(knowledge_file'.pairs)
                        = qa_of(knowledge_file.pairs) \o qa_of_candidates(valid)
                  /\ DOMAIN learned_collection' = DOMAIN learned_collection \cup ids
    ]_vars

\* C3: when the file write or the index write fails during an ingest with a
\* valid record, ingest returns failure and what was committed before the call
\* (durable list, the in-memory list mirroring it, index) is kept intact.
C3_WriteFailureIsReported ==
    [][(an_ingest_step /\ validated(last'.payload) # <<>>
            /\ (last'.save_fault # "none" \/ last'.add_fault)) =>
        /\ last'.result = FALSE
        /\ knowledge_file'.state = knowledge_file.state
        /\ is_prefix(knowledge_file.pairs, knowledge_file'.pairs)
        /\ learned_qa_pairs = knowledge_file.pairs =>
              learned_qa_pairs' = knowledge_file'.pairs
        /\ \A h \in DOMAIN learned_collection :
              h \in DOMAIN learned_collection' /\ learned_collection'[h] = learned_collection[h]
    ]_vars

\* C4: between calls, every QAPair of the durable list has an entry in the
\* index under the same id.
C4_DurablePairsAreIndexed ==
    \A i \in 1..Len(knowledge_file.pairs) :
        knowledge_file.pairs[i].question_hash \in DOMAIN learned_collection

\* The confidence the claims give a distance: max(0, 1 - distance)
claimed_confidence(distance) == IF One - distance < 0 THEN 0 ELSE One - distance

\* C5: getAnswer returns an answer exactly when the nearest neighbour the index
\* returned has confidence >= minConfidence (equal: returned, one below: none).
C5_AnswerIffConfident ==
    last.op = "get_answer" =>
        IF last.query_fault \/ last.hits = <<>>
        THEN last.result.none
        ELSE IF claimed_confidence(last.hits[1].distance) >= last.confidence_threshold
             THEN /\ ~last.result.none
                  /\ last.result.answer = learned_collection[last.hits[1].id].answer
                  /\ last.result.confidence = claimed_confidence(last.hits[1].distance)
             ELSE last.result.none

C5_Witness ==
    /\ last.op = "get_answer"
    /\ ~last.query_fault /\ last.hits # <<>>
    /\ last.confidence_threshold = DefaultAnswerThreshold
    /\ claimed_confidence(last.hits[1].distance) = last.confidence_threshold
    /\ ~last.result.none

\* C6: after N getAnswer calls that returned the same QAPair, its usageCount in
\* the durable list is N and its lastUsedAt is the time of the latest of them.
C6_UsageCountsServedAnswers ==
    \A h \in DOMAIN served :
        /\ \E i \in 1..Len(knowledge_file.pairs) : knowledge_file.pairs[i].question_hash = h
        /\ \A i \in 1..Len(knowledge_file.pairs) :
              knowledge_file.pairs[i].question_hash = h =>
                  /\ knowledge_file.pairs[i].usage_count = served[h].n
                  /\ knowledge_file.pairs[i].last_used = <<served[h].at>>

\* C7: search returns exactly the returned neighbours with confidence
\* max(0, 1 - distance) >= minConfidence, in descending confidence, equal
\* confidences in the order the index returned them.
C7_SearchFiltersAndRanks ==
    last.op = "search" =>
        LET hits == last.hits
            res == last.result
            conf(i) == claimed_confidence(hits[i].distance)
            kept == {i \in 1..Len(hits) : conf(i) >= last.confidence_threshold}
            pos(k) == CHOOSE i \in 1..Len(hits) : hits[i].id = md5(res[k].question)
        IN  IF last.query_fault THEN res = <<>>
            ELSE /\ Len(hits) = Min(last.n_results, Cardinality(DOMAIN learned_collection))
                 /\ Len(res) = Cardinality(kept)
                 /\ \A k \in 1..Len(res) :
                       /\ \E i \in kept : hits[i].id = md5(res[k].question)
                       /\ res[k].confidence = conf(pos(k))
                       /\ res[k].answer = learned_collection[hits[pos(k)].id].answer
                 /\ \A k, l \in 1..Len(res) :
                       k < l => \/ conf(pos(k)) > conf(pos(l))
                                \/ conf(pos(k)) = conf(pos(l)) /\ pos(k) < pos(l)

C7_Witness ==
    /\ last.op = "search" /\ ~last.query_fault
    /\ Len(last.hits) = 2 /\ Len(last.result) = 2
    /\ last.hits[1].distance = last.hits[2].distance
    /\ md5(last.result[1].question) = last.hits[1].id

\* The same QAPair, whatever its usage accounting shows
same_pair(p, q) ==
    /\ p.question_hash = q.question_hash
    /\ p.question = q.question /\ p.answer = q.answer
    /\ p.learned_timestamp = q.learned_timestamp

\* C12: a QAPair that is in the durable knowledge file is still in it after every
\* later ingest or getAnswer of either store instance sharing the file.
C12_DurablePairsStay ==
    [][\A i \in 1..Len(knowledge_file.pairs) :
          \E j \in 1..Len(knowledge_file'.pairs) :
              same_pair(knowledge_file.pairs[i], knowledge_file'.pairs[j])
    ]_vars

-----------------------------------------------------------------------------
(* Claims about the interaction-learning job *)

range(seq) == {seq[k] : k \in 1..Len(seq)}

\* C8: the job sets processed=true on a record only if the ingest call made for
\* that record reported success; a record whose response is under 10 characters
\* is never processed.
C8_ProcessedOnlyOnSuccess ==
    [][\A i \in 1..Len(chat_interactions') :
          /\ (chat_interactions'[i].processed
                /\ (i > Len(chat_interactions) \/ ~chat_interactions[i].processed))
             => (last'.op = "learn_step" /\ last'.index = i /\ last'.result = TRUE)
          /\ Len(chat_interactions'[i].bot_response) < MinAnswerLen
             => ~chat_interactions'[i].processed
    ]_vars

C8_Witness ==
    /\ last.op = "learn_done"
    /\ \E i, j \in 1..Len(chat_interactions) :
          /\ Len(chat_interactions[i].bot_response) < MinAnswerLen
          /\ i \in range(run_submitted[last.thread])
          /\ ~chat_interactions[i].processed
          /\ chat_interactions[j].processed

\* A finished run has passed to ingest each record unprocessed at its start, once
run_covers_start(th) ==
    /\ range(run_submitted'[th]) = run_start'[th]
    /\ Len(run_submitted'[th]) = Cardinality(run_start'[th])

never_resubmits ==
    /\ last'.op = "learn_step" => ~chat_interactions[last'.index].processed
    /\ \A i \in 1..Len(contributed') : contributed'[i] <= 1

\* C9 as claimed: every run submits to ingest exactly the records unprocessed at
\* its start; a processed record is never submitted again and contributes at
\* most one QAPair.
C9_EveryRunSubmitsTheUnprocessed ==
    [][/\ last'.op = "learn_done" => run_covers_start(last'.thread)
       /\ never_resubmits
    ]_vars

\* C9 amended: every run made with a learning system in place submits to ingest
\* exactly the records unprocessed at its start; a processed record is never
\* submitted again and contributes at most one QAPair.
C9_RunsWithAStoreSubmitTheUnprocessed ==
    [][/\ (last'.op = "learn_done" /\ learning_system) => run_covers_start(last'.thread)
       /\ never_resubmits
    ]_vars

C9_Witness ==
    /\ last.op = "learn_done" /\ learning_system /\ runs >= 2
    /\ run_submitted[last.thread] # <<>>
    /\ \E i \in 1..Len(chat_interactions) :
          chat_interactions[i].processed /\ i \notin run_start[last.thread]
    /\ \E j \in run_start[last.thread] : ~chat_interactions[j].processed

-----------------------------------------------------------------------------
(* Claims about the daily data load *)

\* What the run that just left the load loop did with each file it found
latest_run == daily_log[last.thread][Len(daily_log[last.thread])]

is_archived(file) ==
    \E b \in backup_folder :
        b.kind = "file" /\ b.origin = file.name /\ b.mtime = file.mtime

\* C10: when a daily run has gone through its files, each file that could not be
\* parsed is still in the inbox and has not been archived, and each other file
\* of the run (no fault injected into its load or its move) is fully loaded,
\* archived and out of the inbox.
C10_UnparsableFileStaysInInbox ==
    last.op = "daily_loaded" =>
        \A k \in 1..Len(latest_run) :
            LET e == latest_run[k]
            IN  /\ ~e.file.readable =>
                      e.file \in excel_folder /\ ~is_archived(e.file)
                /\ (e.file.readable /\ ~e.faults) =>
                      /\ e.loaded_count = Len(e.file.rows)
                      /\ e.committed = Len(e.file.rows)
                      /\ e.file \notin excel_folder
                      /\ is_archived(e.file)

\* A step in which a daily run on the driver ends: it returns at once, or its
\* thread gets back to idle
daily_run_ends ==
    \/ Len(daily_log'["driver"]) > Len(daily_log["driver"]) /\ pc'["driver"] = "idle"
    \/ pc["driver"] # "idle" /\ pc'["driver"] = "idle"

\* The step is the return of the interaction-learning job the daily run called
\* after its loop had gone through every file it found
ended_by_learning ==
    /\ pc["driver"] \in {"daily_learn", "learn_loop"}
    /\ last'.op = "learn_done" /\ caller'["driver"] = "daily"
    /\ excel_files["driver"] = <<>>

\* C15 as claimed: every run of the daily job ends by running the
\* interaction-learning job inline, after all files have been loaded and archived.
C15_EveryDailyRunEndsByLearning ==
    [][daily_run_ends => ended_by_learning]_vars

\* C15 amended: every run of the daily job that finds at least one file in the
\* inbox ends by running the interaction-learning job inline, after all files
\* have been loaded and archived.
C15_DailyRunWithFilesEndsByLearning ==
    [][(daily_run_ends /\ pc["driver"] # "idle") => ended_by_learning]_vars

C15_Witness ==
    /\ last.op = "learn_done" /\ last.thread = "driver" /\ caller["driver"] = "daily"
    /\ pc["driver"] = "idle"
    /\ Len(daily_log["driver"][Len(daily_log["driver"])]) >= 2
    /\ \E i \in 1..Len(chat_interactions) : chat_interactions[i].processed

\* The entries of every daily run so far, as <<thread, run, position>>
attempts ==
    {<<th, r, k>> \in Threads \X (1..MaxDailyRuns) \X (1..MaxDrops) :
        r <= Len(daily_log[th]) /\ k <= Len(daily_log[th][r])}

attempt(a) == daily_log[a[1]][a[2]][a[3]]

\* C16: every file whose load was attempted (and whose move to the backup folder
\* did not itself fail) is archived whether or not its rows were committed, is no
\* longer in the inbox, and is not loaded again by any later run.
C16_AttemptedFilesAreArchived ==
    \A a \in attempts :
        ~attempt(a).archive_fault =>
            /\ is_archived(attempt(a).file)
            /\ attempt(a).file \notin excel_folder
            /\ \A b \in attempts :
                  attempt(b).file = attempt(a).file => attempt(b).at <= attempt(a).at

C16_Witness ==
    /\ Len(daily_log["driver"]) = 2 /\ pc["driver"] = "idle"
    /\ daily_log["driver"][2] # <<>>
    /\ \E k \in 1..Len(daily_log["driver"][1]) :
          LET e == daily_log["driver"][1][k]
          IN  /\ e.file.readable /\ e.loaded_count = 0 /\ e.committed > 0
              /\ ~e.archive_fault /\ is_archived(e.file)

\* C17: the count loadSource returns is the number of documents it committed,
\* also when a batch fails mid-file.
C17_ReturnedCountIsCommittedCount ==
    \A a \in attempts : attempt(a).loaded_count = attempt(a).committed

\* C18: the ids generated for rows of two files with different names differ.
C18_RowIdsOfDifferentFilesDiffer ==
    last.op = "row_ids" => last.id1 # last.id2

\* The latest load of each file name that met no fault
latest_loads ==
    {a \in attempts :
        /\ attempt(a).file.readable /\ ~attempt(a).faults
        /\ \A b \in attempts :
              attempt(b).file.name = attempt(a).file.name => attempt(b).at <= attempt(a).at}

\* C19: after loadSource has run again on a file of the same name, the index
\* holds under each row id one document, with the content of the latest run.
C19_ReloadOverwrites ==
    \A a \in latest_loads :
        \A idx \in 0..(Len(attempt(a).file.rows) - 1) :
            LET id == row_id(attempt(a).file.name, idx)
            IN  /\ id \in DOMAIN he_collection
                /\ he_collection[id].document = attempt(a).file.rows[idx + 1]

-----------------------------------------------------------------------------
(* Claims about the scheduler *)

\* A step in which an exception was raised inside a job body
a_raise_step == Len(outcomes') = Len(outcomes) + 1 /\ last'.op = "raise"

\* C11: an exception raised inside the body of the daily, hourly or weekly job is
\* caught at the job boundary and does not reach the driver loop: the scheduler
\* thread stays alive, is back in its loop once the job has ended, and the
\* schedule of the due jobs is untouched.
C11_JobFailureNeverHaltsTheScheduler ==
    [][/\ driver_alive'
       /\ a_raise_step =>
             /\ last'.outcome # "escaped"
             /\ pc'[last'.thread] = "idle" /\ active'[last'.thread] = NoJob
             /\ due' = due
    ]_vars

C11_Witness ==
    /\ driver_alive
    /\ \E k \in 1..(Len(outcomes) - 1) :
          /\ outcomes[k].by = "driver" /\ outcomes[k].outcome = "failed"
          /\ \E l \in (k + 1)..Len(outcomes) :
                outcomes[l].by = "driver" /\ outcomes[l].job # outcomes[k].job

\* C13: with the interaction-learning job triggered by hand while a run of it is
\* in progress on the scheduler thread, each record is ingested at most once (it
\* adds at most one QAPair), and no processed flag or log entry is lost.
C13_LearningJobIsReentrant ==
    [][/\ \A i \in 1..Len(contributed') : contributed'[i] <= 1
       /\ Len(chat_interactions') >= Len(chat_interactions)
       /\ \A i \in 1..Len(chat_interactions) :
             chat_interactions[i].processed => chat_interactions'[i].processed
    ]_vars

\* C14: at no time are two scheduled job bodies executing on behalf of the driver.
C14_DriverRunsOneJobAtATime ==
    Cardinality({th \in Threads : active[th].by = "driver"}) <= 1

C14_Witness ==
    /\ active["driver"].by = "driver"
    /\ active["manual"].by = "manual"
    /\ due # {}

\* Age in days, at the time of the last cleanup, of a backup-folder entry
age_at_cleanup(b) == last.at - b.mtime

files_of(backups) == {b \in backups : b.kind = "file"}

\* C20: a cleanup (none of whose removals failed) removes exactly the files of
\* the backup folder that are older than the retention window and keeps
\* everything else.
C20_CleanupRemovesExactlyOldFiles ==
    (last.op = "cleanup" /\ ~last.fault) =>
        /\ backup_folder \subseteq last.before
        /\ \A b \in last.before :
              b \notin backup_folder <=>
                  (b.kind = "file" /\ age_at_cleanup(b) > last.days)

\* Files aged 5, 29, 31 and 60 days under a 30-day retention: 31 and 60 are gone
C20_Witness ==
    /\ last.op = "cleanup" /\ ~last.fault /\ last.days = 30
    /\ {age_at_cleanup(b) : b \in files_of(last.before)} = {5, 29, 31, 60}
    /\ {age_at_cleanup(b) : b \in files_of(backup_folder)} = {5, 29}
    /\ \E b \in last.before : b.kind = "dir" /\ age_at_cleanup(b) = 60 /\ b \in backup_folder

\* C21: no artifact of the backup folder older than the retention window, the
\* snapshot directories included, survives a cleanup (none of whose removals
\* failed).
C21_NoOldArtifactSurvivesCleanup ==
    (last.op = "cleanup" /\ ~last.fault) =>
        \A b \in backup_folder : age_at_cleanup(b) <= last.days

-----------------------------------------------------------------------------
(* Claims about the weekly job *)

\* A step in which a run of the weekly job on the driver ends
weekly_run_ends ==
    pc["driver"] \in {"weekly_export", "weekly_cleanup"} /\ pc'["driver"] = "idle"

\* The step is a cleanup with the 30-day retention
ends_by_cleanup == last'.op = "cleanup" /\ last'.days = RetentionDays

\* The export of the store, as it is now, was in the backup folder the cleanup found
export_was_written == knowledge_backup(learned_qa_pairs, now) \in last'.before

-----------------------------------------------------------------------------
(* Claims about the index snapshot of the daily job *)

\* The daily runs that are over, as <<thread, run>>
finished_runs ==
    {<<th, r>> \in Threads \X (1..MaxDailyRuns) :
        /\ r <= Len(run_info[th])
        /\ (r < Len(run_info[th]) \/ pc[th] # "daily_loop")}

\* C23: a daily run whose index snapshot failed has still gone through every
\* file it found: each has been loaded (all its rows, if it could be parsed and
\* its own load met no failure) and archived (if its own move did not fail).
C23_SnapshotFailureDoesNotBlockTheLoad ==
    \A x \in finished_runs :
        LET info == run_info[x[1]][x[2]]
            entries == daily_log[x[1]][x[2]]
        IN  info.fault =>
                \A n \in 1..Len(info.found) :
                    \E k \in 1..Len(entries) :
                        LET e == entries[k]
                        IN  /\ e.file = info.found[n]
                            /\ (e.file.readable /\ ~e.faults) => e.committed = Len(e.file.rows)
                            /\ ~e.archive_fault =>
                                  (is_archived(e.file) /\ e.file \notin excel_folder)

C23_Witness ==
    /\ pc["driver"] = "idle" /\ last.op = "learn_done"
    /\ Len(run_info["driver"]) = 2
    /\ LET info == run_info["driver"][2]
           entries == daily_log["driver"][2]
       IN  /\ info.fault /\ Len(info.found) >= 1 /\ Len(entries) = Len(info.found)
           /\ \E k \in 1..Len(entries) :
                 /\ entries[k].file.readable /\ ~entries[k].faults
                 /\ entries[k].committed = Len(entries[k].file.rows)
                 /\ is_archived(entries[k].file)

\* The snapshot directory a run made when it started
snapshot_of(info) == {b \in backup_folder : b.kind = "dir" /\ b.mtime = info.at}

\* C24: whenever a daily run writes documents to the index, the snapshot of that
\* run has been attempted before: if the index storage existed and the copy did
\* not fail, the snapshot made when the run started is in the backup folder.
C24_SnapshotPrecedesTheLoad ==
    [][\A th \in Threads :
          (pc[th] = "daily_loop" /\ last'.op = "daily_file" /\ last'.thread = th
              /\ he_collection' # he_collection) =>
             LET info == run_info[th][Len(run_info[th])]
             IN  /\ info.found # <<>> /\ info.at < now
                 /\ (info.existed /\ ~info.fault) => snapshot_of(info) # {}
    ]_vars

C24_Witness ==
    /\ last.op = "daily_file" /\ last.thread = "driver"
    /\ Len(run_info["driver"]) = 2
    /\ LET info == run_info["driver"][2]
           entries == daily_log["driver"][2]
       IN  /\ info.existed /\ ~info.fault /\ snapshot_of(info) # {}
           /\ Len(entries) = 1 /\ entries[1].committed > 0

-----------------------------------------------------------------------------
(* Claims about the interaction log *)

\* Every record of `before` is at the same place in `after`, with the same
\* query, response and capture time, and is still processed if it was
extends_log(before, after) ==
    /\ Len(after) >= Len(before)
    /\ \A i \in 1..Len(before) :
          /\ after[i].user_query = before[i].user_query
          /\ after[i].bot_response = before[i].bot_response
          /\ after[i].timestamp = before[i].timestamp
          /\ before[i].processed => after[i].processed

\* C25: across captures and runs of the interaction-learning job no record of
\* the interaction log is removed or reordered, its query and response never
\* change, and its processed flag only goes from false to true: in the list in
\* memory always, in the log file from one complete write to the next.
C25_InteractionLogIsAppendOnly ==
    [][/\ extends_log(chat_interactions, chat_interactions')
       /\ (interaction_file.state = "ok" /\ interaction_file'.state = "ok") =>
             extends_log(interaction_file.interactions, interaction_file'.interactions)
    ]_vars

C25_Witness ==
    /\ last.op = "capture" /\ last.fault = "none"
    /\ Len(chat_interactions) = 3
    /\ chat_interactions[1].processed
    /\ ~chat_interactions[2].processed /\ runs >= 2
    /\ interaction_file = [state |-> "ok", interactions |-> chat_interactions]

-----------------------------------------------------------------------------
(* Claims about clearing the Knowledge Store *)

\* Nothing learned is left: list, index entries, both files
cleared == <<<<>>, AbsentFile, AbsentMeta, <<>>>>

\* C26: after a clearAll (none of whose calls failed) the list is empty, the
\* index holds no learned entry and both files are gone; a clearAll of a store
\* that is already cleared returns success and leaves it as it is, whichever
\* removal would fail (the index being reachable).
C26_ClearAllIsIdempotent ==
    last.op = "clear" =>
        /\ last.fault = "none" =>
              /\ last.result = TRUE
              /\ store_vars = cleared
        /\ (last.before = cleared /\ last.fault # "index") =>
              /\ last.result = TRUE
              /\ store_vars = last.before

\* A second clearAll, right after a first one that wiped a store holding a pair
C26_Witness ==
    /\ last.op = "clear" /\ last.again /\ last.wiped
    /\ last.before = cleared /\ last.result = TRUE
    /\ last.fault = "remove_knowledge"
    /\ store_vars = cleared

-----------------------------------------------------------------------------
(* Claims about what the retrieval operations change *)

\* What usage accounting must leave alone
created_fields(p) ==
    <<p.question, p.answer, p.question_hash, p.categories, p.fiscal_years,
      p.learned_timestamp, p.confidence_score>>

\* Every pair of `before` is at its place in `after` as it was created, used at
\* least as often; the pairs `after` adds are new: confidence 1.0, never used
only_usage_changes(before, after) ==
    /\ Len(after) >= Len(before)
    /\ \A i \in 1..Len(before) :
          /\ created_fields(after[i]) = created_fields(before[i])
          /\ after[i].usage_count >= before[i].usage_count
    /\ \A i \in (Len(before) + 1)..Len(after) :
          after[i].confidence_score = One /\ after[i].usage_count = 0

\* C27: no ingest, search or getAnswer changes the question, answer, id,
\* categories, fiscal years, creation time or confidence of an existing QAPair;
\* only its usage count (never decreasing) and last-used time change: in the
\* list in memory always, in the knowledge file from one complete write to the
\* next.
C27_OnlyUsageAccountingMutatesAPair ==
    [][/\ only_usage_changes(learned_qa_pairs, learned_qa_pairs')
       /\ (knowledge_file.state = "ok" /\ knowledge_file'.state = "ok") =>
             only_usage_changes(knowledge_file.pairs, knowledge_file'.pairs)
    ]_vars

C27_Witness ==
    /\ last.op = "ingest" /\ last.result = TRUE
    /\ Len(learned_qa_pairs) = 2
    /\ learned_qa_pairs[1].usage_count = 1 /\ learned_qa_pairs[1].last_used # <<>>
    /\ learned_qa_pairs[1].confidence_score = One
    /\ learned_qa_pairs[2].usage_count = 0
    /\ knowledge_file = [state |-> "ok", pairs |-> learned_qa_pairs]

\* The nearest neighbour the index returned is confident enough
confident_match ==
    /\ ~last.query_fault /\ last.hits # <<>>
    /\ claimed_confidence(last.hits[1].distance) >= last.confidence_threshold

\* C28: search and getAnswer hand a value back whatever they meet: search on an
\* empty index, or when the index query fails, returns the empty list; getAnswer
\* with no sufficiently confident match returns none; with one, it returns the
\* answer also when the save of the usage count fails.
C28_RetrievalNeverRaises ==
    /\ (last.op = "search" /\ (learned_collection = <<>> \/ last.query_fault)) =>
          last.result = <<>>
    /\ last.op = "get_answer" =>
          IF confident_match
          THEN /\ ~last.result.none
               /\ last.result.answer = learned_collection[last.hits[1].id].answer
          ELSE last.result = None

\* The index query failed although the store holds a confident match
C28_Witness ==
    /\ last.op = "search" /\ last.query_fault /\ last.result = <<>>
    /\ last.hits # <<>>
    /\ claimed_confidence(last.hits[1].distance) >= last.confidence_threshold

\* A step that is a search, or a getAnswer that returned none
a_miss_or_search_step ==
    /\ now' = now + 1
    /\ \/ last'.op = "search"
       \/ last'.op = "get_answer" /\ last'.result = None

\* C29: every search, and every getAnswer that returns none, leaves the list,
\* the knowledge file, the metadata file and the index as they were.
C29_MissesAndSearchesChangeNothing ==
    [][a_miss_or_search_step =>
          UNCHANGED <<learned_qa_pairs, knowledge_file, metadata_file, learned_collection>>
    ]_vars

\* A getAnswer that found a neighbour under the threshold
C29_Witness ==
    /\ last.op = "get_answer" /\ last.result = None
    /\ ~last.query_fault /\ last.hits # <<>>
    /\ \E i \in 1..Len(learned_qa_pairs) :
          /\ learned_qa_pairs[i].question_hash = last.hits[1].id
          /\ learned_qa_pairs[i].usage_count = 0
    /\ knowledge_file.state = "ok"

-----------------------------------------------------------------------------
(* Claims about the progress of the interaction-learning job *)

\* Query of at least 5 and response of at least 10 characters, once stripped
is_valid_record(r) ==
    /\ Len(strip(r.user_query)) >= MinQuestionLen
    /\ Len(strip(r.bot_response)) >= MinAnswerLen

\* C30: with the hourly job scheduled fairly and a learning system in place,
\* every captured record whose query and response are valid is eventually
\* marked processed, however many invalid records sit before it in the log.
C30_ValidRecordsGetProcessed ==
    \A i \in 1..MaxInteractions :
        (i <= Len(chat_interactions) /\ is_valid_record(chat_interactions[i]))
            ~> (i <= Len(chat_interactions) /\ chat_interactions[i].processed)

\* Two invalid records, submitted and still unprocessed, before a processed one
C30_Witness ==
    /\ Len(chat_interactions) = 3
    /\ ~is_valid_record(chat_interactions[1]) /\ ~chat_interactions[1].processed
    /\ ~is_valid_record(chat_interactions[2]) /\ ~chat_interactions[2].processed
    /\ is_valid_record(chat_interactions[3]) /\ chat_interactions[3].processed
    /\ runs >= 2 /\ last.op = "learn_done"

====
